---- MODULE Spec2Model ----
(***************************************************************************)
(* Model of uncompyle6/bin/uncompile.py: main_bin's path reduction         *)
(* (src_base / pyc_paths), destination resolution (outfile / out_base),    *)
(* the serial call of main() and the multiprocessing dispatch              *)
(* (fqueue, process_func, rqueue, join and drain).                         *)
(*                                                                         *)
(* Paths are sequences of one-character strings; os.sep is "/".            *)
(***************************************************************************)
EXTENDS Integers, Sequences, FiniteSets, TLC

\* ------------------------------------------------------------------ bounds
MaxFiles == 2     \* most input paths of a dispatch run
MaxProc == 2      \* largest -p value of a dispatch run
MaxLen == 4       \* longest path in the lists of one or two paths
ShortLen == 2     \* longest path in the lists of three paths

\* ------------------------------------------------------- string helpers
sep == "/"

NoneVal == <<"None">>      \* Python's None (no path is spelled like this)

Alphabet == {"/", "a", "b"}

RECURSIVE StrsOfLen(_)
StrsOfLen(n) ==
    IF n = 0 THEN {<<>>}
    ELSE {Append(s, c) : s \in StrsOfLen(n - 1), c \in Alphabet}

Strs(n) == UNION {StrsOfLen(k) : k \in 0..n}

\* f[n:]
SliceFrom(f, n) == IF n >= Len(f) THEN <<>> ELSE SubSeq(f, n + 1, Len(f))

\* s[-1:]
LastChars(s) == IF s = <<>> THEN <<>> ELSE <<s[Len(s)]>>

StartsWith(f, p) == Len(f) >= Len(p) /\ SubSeq(f, 1, Len(p)) = p

EndsWith(f, p) ==
    Len(f) >= Len(p) /\ SubSeq(f, Len(f) - Len(p) + 1, Len(f)) = p

\* p.rfind("/") + 1
RFindSep(p) ==
    LET hits == {i \in 1..Len(p) : p[i] = sep}
    IN  IF hits = {} THEN 0 ELSE CHOOSE i \in hits : \A j \in hits : j <= i

AllSep(s) == \A i \in 1..Len(s) : s[i] = sep

\* s.rstrip("/")
RStripSep(s) ==
    LET keep == {i \in 1..Len(s) : s[i] # sep}
    IN  IF keep = {} THEN <<>>
        ELSE SubSeq(s, 1, CHOOSE i \in keep : \A j \in keep : j <= i)

\* the first path taken for the common prefix
commonprefixFirst(m) == IF m = <<>> THEN <<>> ELSE m[1]

\* os.path.commonprefix(m): the longest common leading substring
commonprefix(m) ==
    IF m = <<>> THEN <<>>
    ELSE LET agree(k) == \A j \in 1..Len(m) :
                            /\ Len(m[j]) >= k
                            /\ SubSeq(m[j], 1, k) = SubSeq(m[1], 1, k)
             n == CHOOSE k \in 0..Len(m[1]) :
                     agree(k) /\ (k = Len(m[1]) \/ ~agree(k + 1))
         IN  SubSeq(m[1], 1, n)

\* os.path.dirname(p) (posixpath)
dirname(p) ==
    LET head == SubSeq(p, 1, RFindSep(p))
    IN  IF head # <<>> /\ ~AllSep(head) THEN RStripSep(head) ELSE head

\* os.path.basename(p) (posixpath)
basename(p) == SliceFrom(p, RFindSep(p))

\* os.path.join(a, b) (posixpath)
join(a, b) ==
    IF b # <<>> /\ b[1] = sep THEN b
    ELSE IF a = <<>> \/ a[Len(a)] = sep THEN a \o b
    ELSE a \o <<sep>> \o b

\* ------------------------------------------------- the file system seen
\* The directories os.path.isdir answers True for.
FsDirs == {<<"d">>, <<"d", "/", "s">>, <<"e">>, <<"o">>}

isdir(p) == p \in FsDirs

\* os.walk(f): the (root, file name) pairs in walk order
FsWalk(f) ==
    IF f = <<"d">> THEN
        << <<(<<"d">>), (<<"a", ".", "p", "y", "c">>)>>,
           <<(<<"d">>), (<<"n", ".", "t", "x", "t">>)>>,
           <<(<<"d", "/", "s">>), (<<"c", ".", "p", "y", "o">>)>> >>
    ELSE IF f = <<"d", "/", "s">> THEN
        << <<(<<"d", "/", "s">>), (<<"c", ".", "p", "y", "o">>)>> >>
    ELSE IF f = <<"e">> THEN
        << <<(<<"e">>), (<<"n", ".", "t", "x", "t">>)>> >>
    ELSE <<>>

\* lines 170-173: the .pyc and .pyo files below one directory argument
RECURSIVE WalkPyc(_)
WalkPyc(entries) ==
    IF entries = <<>> THEN <<>>
    ELSE LET root == Head(entries)[1]
             df == Head(entries)[2]
         IN  (IF EndsWith(df, <<".", "p", "y", "c">>)
                   \/ EndsWith(df, <<".", "p", "y", "o">>)
              THEN <<join(root, df)>> ELSE <<>>) \o WalkPyc(Tail(entries))

\* lines 167-174: expanded_files
RECURSIVE ExpandFiles(_)
ExpandFiles(paths) ==
    IF paths = <<>> THEN <<>>
    ELSE (IF isdir(Head(paths)) THEN WalkPyc(FsWalk(Head(paths))) ELSE <<>>)
            \o ExpandFiles(Tail(paths))

Expanded(paths, recurse) == IF recurse THEN ExpandFiles(paths) ELSE paths

\* --------------------------------------------------- path reduction
\* the adjustment of lines 180-181 left out
SrcBaseNoDirname(paths) == commonprefix(paths)

\* lines 179-181: src_base
SrcBase(paths) ==
    LET cp == commonprefix(paths)
    IN  IF LastChars(cp) # <<sep>> THEN dirname(cp) ELSE cp

\* the length of src_base alone, without the separator join() adds
SbLenNoSep(base) == Len(base)

\* line 183: sb_len
SbLen(base) == Len(join(base, <<>>))

\* lines 182-184: the relative paths
RelPaths(paths) ==
    LET base == SrcBase(paths)
    IN  IF base # <<>>
        THEN [i \in 1..Len(paths) |-> SliceFrom(paths[i], SbLen(base))]
        ELSE paths

\* ------------------------------------------------------------ counters
Zero4 == <<0, 0, 0, 0>>

Add4(a, b) == <<a[1] + b[1], a[2] + b[2], a[3] + b[3], a[4] + b[4]>>

\* ------------------------------------------------------------- state
VARIABLES
    files,          \* the paths getopt leaves in pyc_paths (line 91)
    recurse_dirs,   \* -r
    source_paths,   \* -c: the python files to compile first (line 154)
    numproc,        \* -p
    outfile,        \* -o, then the explicit output file
    out_base,       \* the output base directory
    pyc_paths,      \* the paths handed on: expanded, then made relative
    expanded,       \* pyc_paths as they were before line 184 rewrote them
    src_base,       \* the common directory prefix
    behav,          \* what main() does for the i-th path of pyc_paths
    pc,             \* where main_bin is
    exit_status,    \* <<>> while running, then <<the status the process ends with>>
    result,         \* serial branch: what main() returned
    fqueue,         \* the work queue
    rqueue,         \* the result queue
    tot,            \* main_bin's (tot_files, okay_files, failed_files, verify_failed_files)
    printed,        \* the summary lines written, as counter tuples
    started,        \* how many of procs have been started
    joined,         \* how many of procs have been joined
    dint,           \* main_bin caught KeyboardInterrupt / OSError
    wpc,            \* where each process_func is
    wcur,           \* the f each process_func holds
    wcnt,           \* each process_func's four local counters
    handed,         \* per worker, the paths it passed to main(), in order
    wdone,          \* per worker, how many of its main() calls returned
    published,      \* per worker, the tuples it put on rqueue, in order
    wint,           \* the workers that caught KeyboardInterrupt
    wtorn,          \* those of them whose last result is only partly added
    sentinels       \* per worker, how many sentinels (None) it dequeued

vars == <<files, recurse_dirs, source_paths, numproc, outfile, out_base, pyc_paths, expanded,
          src_base, behav, pc, exit_status, result, fqueue, rqueue, tot,
          printed, started, joined, dint, wpc, wcur, wcnt, handed, wdone,
          published, wint, wtorn, sentinels>>

inputVars == <<files, recurse_dirs, source_paths, numproc, behav>>
pathVars == <<outfile, out_base, pyc_paths, expanded, src_base>>
dispVars == <<result, fqueue, rqueue, tot, printed, started, joined, dint>>
workerVars == <<wpc, wcur, wcnt, handed, wdone, published, wint, wtorn,
                sentinels>>

Workers == IF numproc > 1 THEN 1..numproc ELSE {}

\* ------------------------------------------------ main() as the spec has it
\* TransformInvoker: one input path gives (total, okay, failed, verify_failed),
\* or an error.
Outcomes == {"ok", "failed", "vfailed", "raise"}

ResultOf(o) ==
    IF o = "ok" THEN <<1, 1, 0, 0>>
    ELSE IF o = "failed" THEN <<1, 0, 1, 0>>
    ELSE <<1, 0, 0, 1>>

\* main() is deterministic: its outcome is a function of the path
OutcomeOf(f) == behav[CHOOSE i \in 1..Len(pyc_paths) : pyc_paths[i] = f]

\* main() over a list of paths: the sum of its results per path
RECURSIVE MainSum(_)
MainSum(paths) ==
    IF paths = <<>> THEN Zero4
    ELSE Add4(ResultOf(OutcomeOf(Head(paths))), MainSum(Tail(paths)))

MainRaises(paths) == \E i \in 1..Len(paths) : OutcomeOf(paths[i]) = "raise"

\* main() compiles every source file it is given and decompiles the result
\* like one more path; here that always succeeds
RECURSIVE SourceSum(_)
SourceSum(sources) ==
    IF sources = <<>> THEN Zero4
    ELSE Add4(ResultOf("ok"), SourceSum(Tail(sources)))

\* main(src_base, out_base, paths, sources, outfile, ...)
MainResult(paths, sources) == Add4(MainSum(paths), SourceSum(sources))

\* ------------------------------------------------------------- inputs
Letters == <<"a", "b", "c", "e", "f", "g">>

\* the k-th plain input file of a dispatch run: d/a, d/b, ...
Catalog(k) == <<"d", sep, Letters[k]>>

\* -o: not given, "-", an existing directory, a path that is no directory,
\* the empty string
OutfileOpts == {NoneVal, <<"-">>, <<"o">>, <<"f">>, <<>>}

Example == << <<"s","o","m","e","/","c","l","a","s","s","e","s","/","a",".","p","y","c">>,
              <<"s","o","m","e","/","c","m","d","s","/","b",".","p","y","c">> >>

\* two paths whose directories only share leading characters
Unrelated == << <<"a", "b", "c", "/", "x">>, <<"a", "b", "d", "/", "y">> >>

InitCommon ==
    /\ out_base = NoneVal
    /\ pyc_paths = files
    /\ expanded = files
    /\ src_base = <<>>
    /\ pc = "expand"
    /\ exit_status = <<>>
    /\ result = Zero4
    /\ fqueue = <<>>
    /\ rqueue = <<>>
    /\ tot = Zero4
    /\ printed = <<>>
    /\ started = 0
    /\ joined = 0
    /\ dint = FALSE
    /\ wpc = [w \in Workers |-> "new"]
    /\ wcur = [w \in Workers |-> NoneVal]
    /\ wcnt = [w \in Workers |-> Zero4]
    /\ handed = [w \in Workers |-> <<>>]
    /\ wdone = [w \in Workers |-> 0]
    /\ published = [w \in Workers |-> <<>>]
    /\ wint = {}
    /\ wtorn = {}
    /\ sentinels = [w \in Workers |-> 0]

\* -c x.py
OneSource == << <<"x", ".", "p", "y">> >>

\* a dispatch run: -o f and up to MaxFiles inputs: plain files, or -r over a
\* directory, and at most one -c source
Init ==
    /\ \/ /\ recurse_dirs = FALSE
          /\ files \in {[i \in 1..k |-> Catalog(i)] : k \in 0..MaxFiles}
       \/ /\ recurse_dirs = TRUE
          /\ files \in {<< <<"d", "/", "s">> >>, << <<"e">> >>, << Catalog(1) >>}
    /\ source_paths \in {<<>>, OneSource}
    /\ Len(files) + Len(source_paths) <= MaxFiles
    /\ numproc \in 0..MaxProc
    /\ outfile = <<"f">>
    /\ behav \in [1..Len(Expanded(files, recurse_dirs)) -> Outcomes]
    /\ InitCommon

\* a path-reduction run: every list of up to two short paths, every list of
\* three shorter ones, the example of the comment of lines 176-178, two paths
\* in unrelated directories, or -r
InitPaths ==
    /\ \/ /\ recurse_dirs = FALSE
          /\ \/ \E n \in 0..2 : files \in [1..n -> Strs(MaxLen)]
             \/ files \in [1..3 -> Strs(ShortLen)]
             \/ files = Example
             \/ files = Unrelated
       \/ /\ recurse_dirs = TRUE
          /\ files \in {<< <<"d">> >>, << <<"e">> >>, << <<"d">>, <<"d", "/", "s">> >>}
    /\ source_paths = <<>>
    /\ numproc = 0
    /\ outfile \in OutfileOpts
    /\ behav = [i \in 1..Len(Expanded(files, recurse_dirs)) |-> "ok"]
    /\ InitCommon

\* ------------------------------------------------------- main_bin, front
\* lines 166-174
Expand ==
    /\ pc = "expand"
    /\ pyc_paths' = Expanded(pyc_paths, recurse_dirs)
    /\ expanded' = Expanded(pyc_paths, recurse_dirs)
    /\ pc' = "reduce"
    /\ UNCHANGED <<inputVars, outfile, out_base, src_base, exit_status,
                   dispVars, workerVars>>

\* lines 179-184
ReducePaths ==
    /\ pc = "reduce"
    /\ src_base' = SrcBase(pyc_paths)
    /\ pyc_paths' = RelPaths(pyc_paths)
    /\ pc' = "check"
    /\ UNCHANGED <<inputVars, outfile, out_base, expanded, exit_status,
                   dispVars, workerVars>>

\* the message is written but usage() is not called
NoFilesContinues ==
    /\ pc = "check"
    /\ pyc_paths = <<>>
    /\ pc' = "dispatch"
    /\ UNCHANGED <<inputVars, pathVars, exit_status, dispVars, workerVars>>

\* lines 186-188 and usage(), lines 20-22
NoFiles ==
    /\ pc = "check"
    /\ pyc_paths = <<>>
    /\ pc' = "exited"
    /\ exit_status' = <<1>>
    /\ UNCHANGED <<inputVars, pathVars, dispVars, workerVars>>

\* lines 195-197 left out: the output file is kept for several paths
ResolvedOutfileKeeps(of, n) ==
    IF of = <<"-">> THEN NoneVal
    ELSE IF of # NoneVal /\ of # <<>> /\ isdir(of) THEN NoneVal
    ELSE of

\* lines 190-197
ResolvedOutfile(of, n) ==
    IF of = <<"-">> THEN NoneVal
    ELSE IF of # NoneVal /\ of # <<>> /\ isdir(of) THEN NoneVal
    ELSE IF of # NoneVal /\ of # <<>> /\ n > 1 THEN NoneVal
    ELSE of

ResolvedOutBase(of, ob, n) ==
    IF of = <<"-">> THEN ob
    ELSE IF of # NoneVal /\ of # <<>> /\ isdir(of) THEN of
    ELSE IF of # NoneVal /\ of # <<>> /\ n > 1 THEN of
    ELSE ob

ResolveOutfile ==
    /\ pc = "check"
    /\ pyc_paths # <<>>
    /\ outfile' = ResolvedOutfile(outfile, Len(pyc_paths))
    /\ out_base' = ResolvedOutBase(outfile, out_base, Len(pyc_paths))
    /\ pc' = "dispatch"
    /\ UNCHANGED <<inputVars, pyc_paths, expanded, src_base, exit_status,
                   dispVars, workerVars>>

NextPaths == Expand \/ ReducePaths \/ NoFiles \/ ResolveOutfile

SpecPaths == InitPaths /\ [][NextPaths]_vars

\* ------------------------------------------------ main_bin, serial branch
\* main() returns and main_bin returns without writing the summary
SerialReturnNoSummary ==
    /\ pc = "dispatch"
    /\ numproc <= 1
    /\ ~MainRaises(pyc_paths)
    /\ result' = MainResult(pyc_paths, source_paths)
    /\ pc' = "done"
    /\ exit_status' = <<0>>
    /\ UNCHANGED <<inputVars, pathVars, fqueue, rqueue, tot, printed, started,
                   joined, dint, workerVars>>

\* lines 208-228 and 304-307: main() returns, the summary is written for
\* several paths, main_bin returns
SerialReturn ==
    /\ pc = "dispatch"
    /\ numproc <= 1
    /\ ~MainRaises(pyc_paths)
    /\ result' = MainResult(pyc_paths, source_paths)
    /\ printed' = IF Len(pyc_paths) > 1
                  THEN Append(printed, MainResult(pyc_paths, source_paths))
                  ELSE printed
    /\ pc' = "done"
    /\ exit_status' = <<0>>
    /\ UNCHANGED <<inputVars, pathVars, fqueue, rqueue, tot, started, joined,
                   dint, workerVars>>

\* the error is caught like KeyboardInterrupt and main_bin returns
SerialRaiseSwallowed ==
    /\ pc = "dispatch"
    /\ numproc <= 1
    /\ MainRaises(pyc_paths)
    /\ pc' = "done"
    /\ exit_status' = <<0>>
    /\ UNCHANGED <<inputVars, pathVars, dispVars, workerVars>>

\* lines 234-235 and any error no except clause names: the error leaves main_bin
SerialRaise ==
    /\ pc = "dispatch"
    /\ numproc <= 1
    /\ MainRaises(pyc_paths)
    /\ pc' = "aborted"
    /\ exit_status' = <<1>>
    /\ UNCHANGED <<inputVars, pathVars, dispVars, workerVars>>

\* lines 229-231
SerialImportError ==
    /\ pc = "dispatch"
    /\ numproc <= 1
    /\ pc' = "exited"
    /\ exit_status' = <<2>>
    /\ UNCHANGED <<inputVars, pathVars, dispVars, workerVars>>

\* lines 232-233 and 304-307
SerialInterrupt ==
    /\ pc = "dispatch"
    /\ numproc <= 1
    /\ dint' = TRUE
    /\ pc' = "done"
    /\ exit_status' = <<0>>
    /\ UNCHANGED <<inputVars, pathVars, result, fqueue, rqueue, tot, printed,
                   started, joined, workerVars>>

\* ---------------------------------------------- main_bin, parallel branch
\* a capacity with no room for the sentinels
FqueueCapPathsOnly == Len(pyc_paths)

\* line 244: Queue(len(pyc_paths) + numproc)
FqueueCap == Len(pyc_paths) + numproc

\* a capacity one short of the number of processes
RqueueCapOneShort == numproc - 1

\* line 250: Queue(numproc)
RqueueCap == numproc

\* lines 237-244
CreateFqueue ==
    /\ pc = "dispatch"
    /\ numproc > 1
    /\ fqueue' = <<>>
    /\ pc' = "fill"
    /\ UNCHANGED <<inputVars, pathVars, exit_status, result, rqueue, tot,
                   printed, started, joined, dint, workerVars>>

\* lines 247-248 left out: paths are put in place of the sentinels
FillItemPathsOnly(n) == pyc_paths[((n - 1) % Len(pyc_paths)) + 1]

\* the sentinels of line 248 put before the paths of line 246
FillItemSentinelsFirst(n) ==
    IF n <= numproc THEN NoneVal ELSE pyc_paths[n - numproc]

\* every put of line 246 enqueues the first path
FillItemFirst(n) == IF n <= Len(pyc_paths) THEN pyc_paths[1] ELSE NoneVal

\* lines 245-248: the next fqueue.put; a put blocks while the queue is full
FillItem(n) == IF n <= Len(pyc_paths) THEN pyc_paths[n] ELSE NoneVal

FillPut ==
    /\ pc = "fill"
    /\ Len(fqueue) < Len(pyc_paths) + numproc
    /\ Len(fqueue) < FqueueCap
    /\ fqueue' = Append(fqueue, FillItem(Len(fqueue) + 1))
    /\ UNCHANGED <<inputVars, pathVars, pc, exit_status, result, rqueue, tot,
                   printed, started, joined, dint, workerVars>>

\* lines 250-252 and 277
CreateProcs ==
    /\ pc = "fill"
    /\ Len(fqueue) = Len(pyc_paths) + numproc
    /\ rqueue' = <<>>
    /\ tot' = Zero4
    /\ pc' = "start"
    /\ UNCHANGED <<inputVars, pathVars, exit_status, result, fqueue, printed,
                   started, joined, dint, workerVars>>

\* lines 278-279: p.start() of the next process, which runs lines 255-261;
\* after the last one the loop of line 280 begins
StartProc ==
    /\ pc = "start"
    /\ started < numproc
    /\ started' = started + 1
    /\ wpc' = [wpc EXCEPT ![started + 1] = "get"]
    /\ wcnt' = [wcnt EXCEPT ![started + 1] = Zero4]
    /\ pc' = IF started + 1 = numproc THEN "join" ELSE "start"
    /\ UNCHANGED <<inputVars, pathVars, exit_status, result, fqueue, rqueue,
                   tot, printed, joined, dint, wcur, handed, wdone, published,
                   wint, wtorn, sentinels>>

Exited(w) == wpc[w] \in {"done", "crashed"}

\* a join that does not wait for the process to end
JoinProcNoWait ==
    /\ pc = "join"
    /\ joined < numproc
    /\ joined' = joined + 1
    /\ pc' = IF joined + 1 = numproc THEN "drain" ELSE "join"
    /\ tot' = IF joined + 1 = numproc THEN Zero4 ELSE tot
    /\ UNCHANGED <<inputVars, pathVars, exit_status, result, fqueue, rqueue,
                   printed, started, dint, workerVars>>

\* lines 280-281: p.join() returns when the process has ended; after the
\* last one lines 282-288 reset the counters
JoinProc ==
    /\ pc = "join"
    /\ joined < numproc
    /\ Exited(joined + 1)
    /\ joined' = joined + 1
    /\ pc' = IF joined + 1 = numproc THEN "drain" ELSE "join"
    /\ tot' = IF joined + 1 = numproc THEN Zero4 ELSE tot
    /\ UNCHANGED <<inputVars, pathVars, exit_status, result, fqueue, rqueue,
                   printed, started, dint, workerVars>>

\* lines 290-294: one rqueue.get(False) that finds a tuple
DrainAdd(sum, t) == Add4(sum, t)

DrainGet ==
    /\ pc = "drain"
    /\ rqueue # <<>>
    /\ tot' = DrainAdd(tot, Head(rqueue))
    /\ rqueue' = Tail(rqueue)
    /\ UNCHANGED <<inputVars, pathVars, pc, exit_status, result, fqueue,
                   printed, started, joined, dint, workerVars>>

\* a drain that ends only when every process has published
DrainEmptyWaitsAll ==
    /\ pc = "drain"
    /\ rqueue = <<>>
    /\ \A w \in Workers : wpc[w] = "done"
    /\ printed' = Append(printed, tot)
    /\ pc' = "done"
    /\ exit_status' = <<0>>
    /\ UNCHANGED <<inputVars, pathVars, result, fqueue, rqueue, tot, started,
                   joined, dint, workerVars>>

\* lines 290 and 295-307: rqueue.get(False) raises Empty, the summary is
\* written, main_bin returns
DrainEmpty ==
    /\ pc = "drain"
    /\ rqueue = <<>>
    /\ printed' = Append(printed, tot)
    /\ pc' = "done"
    /\ exit_status' = <<0>>
    /\ UNCHANGED <<inputVars, pathVars, result, fqueue, rqueue, tot, started,
                   joined, dint, workerVars>>

\* lines 301-307: KeyboardInterrupt (or OSError) inside the try of line 276;
\* main_bin returns
DispatcherInterrupt ==
    /\ pc \in {"start", "join", "drain"}
    /\ dint' = TRUE
    /\ pc' = "done"
    /\ exit_status' = <<0>>
    /\ UNCHANGED <<inputVars, pathVars, result, fqueue, rqueue, tot, printed,
                   started, joined, workerVars>>

\* ---------------------------------------------------------- process_func
\* line 263, then 264-265 (the sentinel) or the call of line 266
WorkerGet(w) ==
    /\ wpc[w] = "get"
    /\ fqueue # <<>>
    /\ fqueue' = Tail(fqueue)
    /\ wcur' = [wcur EXCEPT ![w] = Head(fqueue)]
    /\ IF Head(fqueue) = NoneVal
       THEN /\ wpc' = [wpc EXCEPT ![w] = "put"]
            /\ handed' = handed
            /\ sentinels' = [sentinels EXCEPT ![w] = @ + 1]
       ELSE /\ wpc' = [wpc EXCEPT ![w] = "main"]
            /\ handed' = [handed EXCEPT ![w] = Append(@, Head(fqueue))]
            /\ sentinels' = sentinels
    /\ UNCHANGED <<inputVars, pathVars, pc, exit_status, result, rqueue, tot,
                   printed, started, joined, dint, wcnt, wdone, published, wint,
                   wtorn>>

\* "=" for "+=" in lines 267-270
AccumulateOverwrite(cnt, r) == r

\* lines 266-270: main(src_base, out_base, [f], [], ...) returns and its
\* counters are added
Accumulate(cnt, r) == Add4(cnt, r)

WorkerMainReturn(w) ==
    /\ wpc[w] = "main"
    /\ OutcomeOf(wcur[w]) # "raise"
    /\ wcnt' = [wcnt EXCEPT ![w] = Accumulate(@, MainResult(<<wcur[w]>>, <<>>))]
    /\ wdone' = [wdone EXCEPT ![w] = @ + 1]
    /\ wpc' = [wpc EXCEPT ![w] = "get"]
    /\ UNCHANGED <<inputVars, pathVars, pc, exit_status, dispVars, wcur,
                   handed, published, wint, wtorn, sentinels>>

\* line 266: main() raises an error line 271 does not name; the process ends
WorkerCrash(w) ==
    /\ wpc[w] = "main"
    /\ OutcomeOf(wcur[w]) = "raise"
    /\ wpc' = [wpc EXCEPT ![w] = "crashed"]
    /\ UNCHANGED <<inputVars, pathVars, pc, exit_status, dispVars, wcur, wcnt,
                   handed, wdone, published, wint, wtorn, sentinels>>

\* line 271 without KeyboardInterrupt: the interrupt ends the process
WorkerInterruptUncaught(w) ==
    /\ wpc[w] \in {"get", "main"}
    /\ wint' = wint \cup {w}
    /\ wpc' = [wpc EXCEPT ![w] = "crashed"]
    /\ UNCHANGED <<inputVars, pathVars, pc, exit_status, dispVars, wcur, wcnt,
                   handed, wdone, published, wtorn, sentinels>>

\* lines 271-272: KeyboardInterrupt in fqueue.get() or in main()
WorkerInterrupt(w) ==
    /\ wpc[w] \in {"get", "main"}
    /\ wint' = wint \cup {w}
    /\ wpc' = [wpc EXCEPT ![w] = "put"]
    /\ UNCHANGED <<inputVars, pathVars, pc, exit_status, dispVars, wcur, wcnt,
                   handed, wdone, published, wtorn, sentinels>>

\* the first j of the four fields of r (lines 267-270 add them in this order)
Leading(j, r) == [k \in 1..4 |-> IF k <= j THEN r[k] ELSE 0]

\* lines 267-272: KeyboardInterrupt after main() returned, when only the
\* first j of the four additions have been made. The locals of process_func
\* are seen by no other process, so the additions made and the interrupt are
\* one step. When the additions left would add 0 the result is all there.
WorkerInterruptAdding(w) ==
    /\ wpc[w] = "main"
    /\ OutcomeOf(wcur[w]) # "raise"
    /\ \E j \in 1..3 :
          LET r == MainResult(<<wcur[w]>>, <<>>)
          IN  /\ wcnt' = [wcnt EXCEPT ![w] = Accumulate(@, Leading(j, r))]
              /\ wdone' = [wdone EXCEPT ![w] = IF Leading(j, r) = r THEN @ + 1 ELSE @]
              /\ wtorn' = IF Leading(j, r) = r THEN wtorn ELSE wtorn \cup {w}
    /\ wint' = wint \cup {w}
    /\ wpc' = [wpc EXCEPT ![w] = "put"]
    /\ UNCHANGED <<inputVars, pathVars, pc, exit_status, dispVars, wcur,
                   handed, published, sentinels>>

\* line 273: the tuple put on rqueue
Partial(w) == wcnt[w]

\* lines 273-274: a put blocks while the queue is full
WorkerPublish(w) ==
    /\ wpc[w] = "put"
    /\ Len(rqueue) < RqueueCap
    /\ rqueue' = Append(rqueue, Partial(w))
    /\ published' = [published EXCEPT ![w] = Append(@, Partial(w))]
    /\ wpc' = [wpc EXCEPT ![w] = "done"]
    /\ UNCHANGED <<inputVars, pathVars, pc, exit_status, result, fqueue, tot,
                   printed, started, joined, dint, wcur, wcnt, handed, wdone, wint,
                   wtorn, sentinels>>

WorkerStep(w) ==
    \/ WorkerGet(w)
    \/ WorkerMainReturn(w)
    \/ WorkerCrash(w)
    \/ WorkerPublish(w)

DispatcherStep ==
    \/ Expand \/ ReducePaths \/ NoFiles \/ ResolveOutfile
    \/ SerialReturn \/ SerialRaise
    \/ CreateFqueue \/ FillPut \/ CreateProcs \/ StartProc
    \/ JoinProc \/ DrainGet \/ DrainEmpty

Get == \E w \in Workers : WorkerGet(w)
MainReturn == \E w \in Workers : WorkerMainReturn(w)
Crash == \E w \in Workers : WorkerCrash(w)
Interrupt == \E w \in Workers : WorkerInterrupt(w)
InterruptAdding == \E w \in Workers : WorkerInterruptAdding(w)
Publish == \E w \in Workers : WorkerPublish(w)

Next ==
    \/ Expand \/ ReducePaths \/ NoFiles \/ ResolveOutfile
    \/ SerialReturn \/ SerialRaise \/ SerialImportError \/ SerialInterrupt
    \/ CreateFqueue \/ FillPut \/ CreateProcs \/ StartProc
    \/ JoinProc \/ DrainGet \/ DrainEmpty \/ DispatcherInterrupt
    \/ Get \/ MainReturn \/ Crash \/ Interrupt \/ InterruptAdding \/ Publish

Spec == Init /\ [][Next]_vars

\* every process that can take a step of its own code eventually takes one
FairSpec ==
    /\ Spec
    /\ WF_vars(DispatcherStep)
    /\ \A w \in 1..MaxProc : WF_vars(w \in Workers /\ WorkerStep(w))

\* ============================================================= claims
Reduced == pc \notin {"expand", "reduce"}

Some == <<"s", "o", "m", "e">>

\* C7: after the reduction, joining every relative path back onto src_base
\* gives the input path at the same position.
C7_RoundTrip ==
    Reduced =>
        /\ Len(pyc_paths) = Len(expanded)
        /\ \A i \in 1..Len(expanded) : join(src_base, pyc_paths[i]) = expanded[i]

\* C8: src_base is a character-wise prefix of every input path and ends on a
\* directory boundary.
PrefixOnBoundary ==
    /\ \A i \in 1..Len(expanded) : StartsWith(expanded[i], src_base)
    /\ \/ src_base = <<>>
       \/ LastChars(src_base) = <<sep>>
       \/ \A i \in 1..Len(expanded) :
             /\ Len(expanded[i]) > Len(src_base)
             /\ expanded[i][Len(src_base) + 1] = sep

ExampleRelatives ==
    pyc_paths = << <<"c","l","a","s","s","e","s","/","a",".","p","y","c">>,
                   <<"c","m","d","s","/","b",".","p","y","c">> >>

\* C8 as the claim words it: the example's prefix is "some/".
C8_PrefixAsClaimed ==
    Reduced =>
        /\ PrefixOnBoundary
        /\ expanded = Example => (src_base = Some \o <<sep>> /\ ExampleRelatives)

\* C8, amended: the example's prefix is "some" (without the separator); the
\* characters stripped are those of "some/".
C8_PrefixOnBoundary ==
    Reduced =>
        /\ PrefixOnBoundary
        /\ expanded = Example =>
              /\ src_base = Some
              /\ SbLen(src_base) = Len(Some) + 1
              /\ ExampleRelatives

C8_Witness == pc = "check" /\ expanded = Example /\ src_base = Some

\* C9: for a single input path and a directory destination, the relative
\* path is the input's basename, and it maps to join(out_base, basename).
C9_SingleBasename ==
    (pc = "dispatch" /\ Len(expanded) = 1 /\ out_base # NoneVal) =>
        /\ pyc_paths[1] = basename(expanded[1])
        /\ join(out_base, pyc_paths[1]) = join(out_base, basename(expanded[1]))

\* ----------------------------------------------------- dispatch claims
RECURSIVE SumSeq4(_)
SumSeq4(q) == IF q = <<>> THEN Zero4 ELSE Add4(Head(q), SumSeq4(Tail(q)))

\* the sum of everything workers 1..n put on rqueue
RECURSIVE PublishedUpTo(_)
PublishedUpTo(n) ==
    IF n = 0 THEN Zero4 ELSE Add4(SumSeq4(published[n]), PublishedUpTo(n - 1))

PublishedSum == PublishedUpTo(Cardinality(Workers))

\* the sum of the results of the first n paths, each taken once
RECURSIVE RefUpTo(_)
RefUpTo(n) ==
    IF n = 0 THEN Zero4 ELSE Add4(ResultOf(behav[n]), RefUpTo(n - 1))

\* the sum of the results of all inputs of the run: the paths and the
\* -c sources
RefSum == Add4(RefUpTo(Len(behav)), SourceSum(source_paths))

\* the sum of the results of the main() calls of w that returned
CompletedSum(w) ==
    SumSeq4([i \in 1..wdone[w] |-> ResultOf(OutcomeOf(handed[w][i]))])

NPaths == Len(pyc_paths)

Parallel == numproc > 1

AnyCrashed == \E w \in Workers : wpc[w] = "crashed"

AllOk == \A i \in 1..Len(behav) : behav[i] = "ok"

NoRaise == \A i \in 1..Len(behav) : behav[i] # "raise"

\* the parallel run is over and main_bin reached its summary
Summarised == pc = "done" /\ Parallel /\ ~dint

\* C1: K files, W workers, 1 < W <= K, every call returns (1,1,0,0), nobody
\* crashes or is interrupted: the summary is (K, K, 0, 0).
C1_AllOkSum ==
    (Summarised /\ numproc <= NPaths /\ AllOk /\ wint = {}) =>
        /\ tot = <<NPaths, NPaths, 0, 0>>
        /\ printed = <<tot>>

\* both workers did part of the work
C1_Witness ==
    /\ Summarised /\ numproc <= NPaths /\ AllOk /\ wint = {}
    /\ \A w \in Workers : handed[w] # <<>>
    /\ tot = <<NPaths, NPaths, 0, 0>>

\* after a crash the summary is one line, the sum of the published tuples,
\* with a total below the number of input files
CrashSumOfPublished ==
    (Summarised /\ AnyCrashed) =>
        /\ printed = <<tot>>
        /\ tot = PublishedSum
        /\ tot[1] < NPaths

\* C2: when a worker has crashed before publishing, main_bin still ends, and
\* when it gets to its summary it writes one line: the sum of exactly the
\* published tuples, whose total is below the number of input files.
C2_CrashStillEnds == [](CrashSumOfPublished) /\ (AnyCrashed ~> (pc = "done"))

\* one worker crashed, the other published the work it did
C2_Witness ==
    /\ Summarised /\ AnyCrashed
    /\ \E w \in Workers : wpc[w] = "done" /\ wdone[w] > 0
    /\ printed = <<tot>> /\ tot[1] > 0

\* the run ended with no error and no interrupt
CleanEnd == pc = "done" /\ ~dint /\ wint = {} /\ NoRaise

\* C3: with no error and no interrupt, the serial result and the parallel
\* sum are both the sum of the per-input results of the same input set, for
\* every interleaving of the workers.
C3_SerialEqualsParallel ==
    CleanEnd =>
        /\ ~Parallel => result = RefSum
        /\ Parallel => tot = RefSum

\* what holds of the two branches: they agree when no -c source is given
SumsAgreeWithoutSources ==
    (CleanEnd /\ source_paths = <<>>) =>
        /\ ~Parallel => result = RefSum
        /\ Parallel => tot = RefSum

\* the paths workers 1..n passed to main()
RECURSIVE HandedUpTo(_)
HandedUpTo(n) == IF n = 0 THEN <<>> ELSE HandedUpTo(n - 1) \o handed[n]

CountIn(f, q) == Cardinality({i \in 1..Len(q) : q[i] = f})

\* how often f was passed to main(), over all workers
HandedCount(f) == CountIn(f, HandedUpTo(Cardinality(Workers)))

\* how often f was enqueued
Occurrences(f) == CountIn(f, pyc_paths)

AllExited == Parallel /\ started = numproc /\ \A w \in Workers : Exited(w)

AtMostOnce ==
    \A i \in 1..NPaths : HandedCount(pyc_paths[i]) <= Occurrences(pyc_paths[i])

ExactlyOnce ==
    \A i \in 1..NPaths : HandedCount(pyc_paths[i]) = Occurrences(pyc_paths[i])

InFlight(w) ==
    IF Len(handed[w]) > wdone[w]
    THEN ResultOf(OutcomeOf(handed[w][wdone[w] + 1])) ELSE Zero4

\* an interrupted worker dequeues no more and its put on rqueue finds room
InterruptedStops(w) ==
    /\ wpc[w] \in {"put", "done"}
    /\ wpc[w] = "put" => (published[w] = <<>> /\ Len(rqueue) < RqueueCap)

\* C5 as the claim words it: a worker that caught KeyboardInterrupt dequeues
\* no more and publishes one tuple, the sum of the results it had added in
\* full; the summary includes every tuple.
C5_InterruptedPublishesAsClaimed ==
    /\ \A w \in wint :
          /\ InterruptedStops(w)
          /\ wpc[w] = "done" => published[w] = <<CompletedSum(w)>>
    /\ (Summarised /\ wint # {}) => tot = PublishedSum

\* C5, amended: ... the tuple is the sum of the results it had added in
\* full when the interrupt came in fqueue.get() or in main(); when it came
\* between the additions of lines 267-270, the tuple holds in addition the
\* leading fields of the result being added.
C5_InterruptedPublishes ==
    /\ \A w \in wint :
          /\ InterruptedStops(w)
          /\ (wpc[w] = "done" /\ w \notin wtorn) =>
                published[w] = <<CompletedSum(w)>>
          /\ (wpc[w] = "done" /\ w \in wtorn) =>
                \E j \in 1..3 :
                    /\ Leading(j, InFlight(w)) # InFlight(w)
                    /\ published[w] =
                          <<Add4(CompletedSum(w), Leading(j, InFlight(w)))>>
    /\ (Summarised /\ wint # {}) => tot = PublishedSum

\* one worker interrupted after a finished call, one between the additions;
\* their work is in the summary
C5_Witness ==
    /\ Summarised
    /\ \E w \in wint \ wtorn : wdone[w] > 0 /\ published[w] = <<CompletedSum(w)>>
    /\ \E w \in wtorn : published[w] # <<CompletedSum(w)>>
    /\ tot = PublishedSum /\ tot[1] > 1

\* C6: when main_bin itself catches the interrupt, the run still ends with
\* the summary written.
C6_InterruptStillReports == (pc = "done" /\ dint) => Len(printed) = 1

EmptyInput == pc # "expand" /\ expanded = <<>>

\* C10: with no input path the run ends in usage() with status 1; nothing
\* is enqueued, no process is started and main() is never called.
C10_NoFilesUsage ==
    EmptyInput =>
        /\ pc \in {"reduce", "check", "exited"}
        /\ pc = "check" => ENABLED NoFiles
        /\ pc = "exited" => exit_status = <<1>>
        /\ exit_status \in {<<>>, <<1>>}
        /\ fqueue = <<>> /\ rqueue = <<>> /\ started = 0
        /\ \A w \in Workers : wpc[w] = "new" /\ handed[w] = <<>>
        /\ result = Zero4 /\ printed = <<>>

C10_Witness ==
    /\ EmptyInput /\ recurse_dirs /\ files # <<>> /\ Parallel
    /\ pc = "exited" /\ exit_status = <<1>>

\* C11: fqueue never holds more than K + N entries (K paths, N processes),
\* and while main_bin fills it, before any process is started, every put of
\* the K paths and the N sentinels finds room.
C11_FillNeverBlocks ==
    Parallel =>
        /\ Len(fqueue) <= NPaths + numproc
        /\ pc = "fill" =>
              /\ started = 0
              /\ Len(fqueue) < NPaths + numproc => ENABLED FillPut

\* the queue is full of the K paths and N sentinels, nobody dequeues yet
C11_Witness ==
    /\ Parallel /\ pc = "fill" /\ started = 0
    /\ NPaths >= 2
    /\ Len(fqueue) = NPaths + numproc
    /\ fqueue[NPaths] # NoneVal /\ fqueue[Len(fqueue)] = NoneVal

\* C12: rqueue never holds more than N tuples, no process puts a second
\* tuple on it, a process that has ended normally has put exactly one, and a
\* process that is about to put finds room, although main_bin reads nothing
\* before its drain.
C12_PublishOnceNoBlock ==
    Parallel =>
        /\ Len(rqueue) <= numproc
        /\ pc \in {"dispatch", "fill", "start", "join"} => tot = Zero4
        /\ \A w \in Workers :
              /\ Len(published[w]) <= 1
              /\ wpc[w] = "done" => Len(published[w]) = 1
              /\ wpc[w] = "put" =>
                    (published[w] = <<>> /\ ENABLED WorkerPublish(w))

\* every process has put its tuple and main_bin has not got past its first
\* join: rqueue is full
C12_Witness ==
    /\ Parallel /\ pc = "join" /\ joined = 0
    /\ \A w \in Workers : wpc[w] = "done" /\ Len(published[w]) = 1
    /\ Len(rqueue) = numproc

\* in fqueue no path stands behind a sentinel
SentinelsLast ==
    \A i, j \in 1..Len(fqueue) :
        (i < j /\ fqueue[i] = NoneVal) => fqueue[j] = NoneVal

SentinelsTaken == Cardinality({w \in Workers : sentinels[w] > 0})

SentinelsQueued == CountIn(NoneVal, fqueue)

\* the fill puts the K paths in their order, then the sentinels; once it is
\* over there is one sentinel per process, queued or taken; a process that
\* took one is at its put or has ended; when all processes have ended
\* without error or interrupt fqueue is empty and each took one
SentinelState ==
    Parallel =>
        /\ SentinelsLast
        /\ pc = "fill" =>
              \A i \in 1..Len(fqueue) :
                  fqueue[i] = IF i <= NPaths THEN pyc_paths[i] ELSE NoneVal
        /\ pc \in {"start", "join", "drain", "done"} =>
              SentinelsQueued + SentinelsTaken = numproc
        /\ \A w \in Workers :
              /\ sentinels[w] <= 1
              /\ sentinels[w] = 1 => wpc[w] \in {"put", "done"}
        /\ (AllExited /\ ~AnyCrashed /\ wint = {}) =>
              /\ fqueue = <<>>
              /\ \A w \in Workers : sentinels[w] = 1

\* a step that dequeues a sentinel finds no path in fqueue
SentinelStep ==
    (\E w \in Workers : sentinels'[w] > sentinels[w]) =>
        \A i \in 1..Len(fqueue) : fqueue[i] = NoneVal

\* C13: the K paths are enqueued first, then one sentinel per process; a
\* process stops at the first sentinel it dequeues; no sentinel is dequeued
\* while a path is still queued; with no error and no interrupt all N
\* sentinels are taken and fqueue is empty when the last process has ended.
C13_SentinelsFifo == []SentinelState /\ [][SentinelStep]_vars

\* both processes worked, then each took its sentinel
C13_Witness ==
    /\ AllExited /\ ~AnyCrashed /\ wint = {}
    /\ NPaths >= 2
    /\ \A w \in Workers : sentinels[w] = 1 /\ handed[w] # <<>>
    /\ fqueue = <<>>

\* ------------------------------------------------- single and unrelated paths
NoDoubleSep(p) == \A i \in 1..(Len(p) - 1) : ~(p[i] = sep /\ p[i + 1] = sep)

\* C14 as the claim words it: for a single input path the whole path is the
\* prefix and the relative path is the empty string.
C14_SingleEmptyAsClaimed ==
    (Reduced /\ Len(expanded) = 1) =>
        /\ src_base = expanded[1]
        /\ pyc_paths = << <<>> >>

\* C14, amended: for a single input path the prefix is the path's directory
\* part (the whole path only when it ends with a separator) and the relative
\* path is the rest of the path: its basename when the path has no repeated
\* separator, and empty only when the path is empty or ends with a separator.
C14_SingleRelative ==
    (Reduced /\ Len(expanded) = 1) =>
        LET p == expanded[1]
        IN  /\ Len(pyc_paths) = 1
            /\ src_base = IF LastChars(p) = <<sep>> THEN p ELSE dirname(p)
            /\ EndsWith(p, pyc_paths[1])
            /\ pyc_paths[1] = <<>> <=> (p = <<>> \/ LastChars(p) = <<sep>>)
            /\ NoDoubleSep(p) => pyc_paths[1] = basename(p)

\* "a/b" is reduced to prefix "a" and relative path "b"
C14_Witness ==
    /\ pc = "check"
    /\ expanded = << <<"a", "/", "b">> >>
    /\ src_base = <<"a">>
    /\ pyc_paths = << <<"b">> >>

\* no directory prefix (a leading part ending with a separator) is shared by
\* all the paths
NoCommonDir(paths) ==
    ~ \E k \in 1..Len(paths[1]) :
          /\ paths[1][k] = sep
          /\ \A j \in 1..Len(paths) : StartsWith(paths[j], SubSeq(paths[1], 1, k))

\* C15: when the input paths share no directory, also when their first
\* components share leading characters, src_base is empty and the paths are
\* handed on unchanged, in the same order.
C15_NoCommonDirUnchanged ==
    (Reduced /\ expanded # <<>> /\ NoCommonDir(expanded)) =>
        /\ src_base = <<>>
        /\ pyc_paths = expanded

\* "abc/x" and "abd/y": the common prefix "ab" is no directory
C15_Witness ==
    /\ pc = "check"
    /\ expanded = Unrelated
    /\ commonprefix(expanded) = <<"a", "b">>
    /\ src_base = <<>>
    /\ pyc_paths = Unrelated

\* ------------------------------------------------- destination resolution
\* Python's truth value of outfile / out_base
IsSet(x) == x # NoneVal /\ x # <<>>

\* the step of lines 190-197, by the -o value it finds
ResolveStep ==
    (pc = "check" /\ pc' = "dispatch") =>
        /\ outfile = <<"-">> =>
              (outfile' = NoneVal /\ out_base' = NoneVal)
        /\ (IsSet(outfile) /\ outfile # <<"-">>
                /\ (isdir(outfile) \/ Len(pyc_paths) > 1)) =>
              (out_base' = outfile /\ outfile' = NoneVal)
        /\ (IsSet(outfile) /\ outfile # <<"-">>
                /\ ~isdir(outfile) /\ Len(pyc_paths) = 1) =>
              (outfile' = outfile /\ out_base' = NoneVal)
        /\ ~IsSet(outfile) =>
              (outfile' = outfile /\ out_base' = NoneVal)

NeverBothSet == pc = "dispatch" => ~(IsSet(out_base) /\ IsSet(outfile))

\* C16: "-" gives standard output (no base directory, no output file); an
\* existing directory, or any other destination with more than one input
\* path, becomes out_base and outfile is cleared; a destination that is no
\* directory, with exactly one input path, stays the output file; after the
\* resolution out_base and outfile are never both set.
C16_DestinationResolved == []NeverBothSet /\ [][ResolveStep]_vars

\* -o f, which is no directory, with two input paths: f is the base directory
C16_Witness ==
    /\ pc = "dispatch"
    /\ Len(pyc_paths) = 2
    /\ out_base = <<"f">> /\ ~isdir(out_base)
    /\ outfile = NoneVal

\* ------------------------------------------------------- serial branch
\* C17: with numproc <= 1 no queue is filled and no process is started;
\* main() is called by main_bin itself; an error of main() that no except
\* clause handles, VerifyCmpError among them, leaves main_bin at once: the
\* run ends with a non-zero status and no summary line, never as a normal
\* completion; ImportError ends the run with status 2.
C17_SerialFailsFast ==
    ~Parallel =>
        /\ Workers = {}
        /\ fqueue = <<>> /\ rqueue = <<>> /\ started = 0 /\ joined = 0
        /\ pc \notin {"fill", "start", "join", "drain"}
        /\ (pc = "dispatch" /\ MainRaises(pyc_paths)) =>
              (ENABLED SerialRaise /\ ~ENABLED SerialReturn)
        /\ pc = "aborted" =>
              /\ MainRaises(pyc_paths)
              /\ printed = <<>>
              /\ exit_status = <<1>>
        /\ (pc = "done" /\ ~dint) => ~MainRaises(pyc_paths)
        /\ (pc = "exited" /\ pyc_paths # <<>>) =>
              (exit_status = <<2>> /\ printed = <<>>)

\* main() worked on the first path and raised on the second one
C17_Witness ==
    /\ ~Parallel /\ pc = "aborted"
    /\ NPaths >= 2 /\ behav[1] = "ok" /\ behav[2] = "raise"
    /\ printed = <<>> /\ exit_status = <<1>>

\* ------------------------------------------------------------- summary
\* main_bin returned after a run with no error and no interrupt
NormalEnd == pc = "done" /\ ~dint /\ wint = {} /\ ~AnyCrashed

\* the counters main_bin holds when it is about to write the summary
Aggregated == IF Parallel THEN tot ELSE result

\* C18 as the claim words it: every normal completion has written the
\* summary once, for any number of input paths.
C18_SummaryOnceAsClaimed ==
    NormalEnd => (printed = <<Aggregated>> /\ exit_status = <<0>>)

\* C18, amended: every normal completion of a parallel run, and of a serial
\* run over more than one path, has written the summary of the aggregated
\* counters once; a serial run over one path has written none.
C18_SummaryOnce ==
    NormalEnd =>
        /\ exit_status = <<0>>
        /\ Parallel => (printed = <<tot>> /\ tot = PublishedSum)
        /\ (~Parallel /\ NPaths > 1) => printed = <<result>>
        /\ (~Parallel /\ NPaths <= 1) => printed = <<>>

\* a serial run over two paths wrote its summary once
C18_Witness ==
    /\ NormalEnd /\ ~Parallel
    /\ NPaths = 2 /\ result[1] >= 2
    /\ printed = <<result>>

\* ------------------------------------------------- termination and drain
\* a process at fqueue.get() finds an entry
GetFindsEntry ==
    \A w \in Workers : wpc[w] = "get" => (fqueue # <<>> /\ ENABLED WorkerGet(w))

Running(w) == w \in Workers /\ wpc[w] \in {"get", "main", "put"}

Ended(w) == w \in Workers /\ wpc[w] \in {"done", "crashed"}

\* C19: whatever processes crash or are interrupted, a process that calls
\* fqueue.get() always finds an entry; so every started process ends, and
\* main_bin's joins come to an end.
C19_NoWorkerWaitsForever ==
    /\ []GetFindsEntry
    /\ \A w \in 1..MaxProc : Running(w) ~> Ended(w)
    /\ (pc = "join") ~> (pc \in {"drain", "done"})

\* one process crashed, another was interrupted, entries are left in fqueue
\* and the joins are over
C19_Witness ==
    /\ Parallel /\ pc = "drain"
    /\ AnyCrashed /\ wint # {}
    /\ fqueue # <<>>
    /\ \A w \in Workers : Ended(w)

\* C20: main_bin reads rqueue only when every process has been joined and
\* has ended, so nothing is put on rqueue once the drain has begun; the sum
\* it reports holds every tuple a process put, and rqueue is left empty.
C20_DrainAfterJoin ==
    Parallel =>
        /\ (pc = "drain" \/ Summarised) =>
              /\ joined = numproc
              /\ \A w \in Workers : Ended(w)
        /\ pc = "drain" => Add4(tot, SumSeq4(rqueue)) = PublishedSum
        /\ Summarised =>
              /\ tot = PublishedSum
              /\ rqueue = <<>>
              /\ printed = <<tot>>

\* every process put a tuple with work in it; the summary holds them all
C20_Witness ==
    /\ Summarised
    /\ \A w \in Workers : Len(published[w]) = 1 /\ published[w][1][1] > 0
    /\ tot = PublishedSum /\ rqueue = <<>>

====
